---- MODULE Spec2Model ----
(***************************************************************************)
(* Model of the unpaid-intern string interner.                             *)
(*                                                                         *)
(*   src/src/interner.rs  Interner<I: IstrRepr>  (width-generic interner)  *)
(*   src/src/istr.rs      Istr<Repr>, trait IstrRepr and its six impls     *)
(*   src/src/intern.rs    Interner / Istr(NonZeroU32) (fixed 32-bit)       *)
(*                                                                         *)
(* One Interner is modelled.  Which interner it is (the representation     *)
(* type parameter I of interner.rs, or the fixed interner of intern.rs)    *)
(* is chosen at construction and recorded in repr.  Integer widths are     *)
(* scaled down: u32 has Bits32 bits, usize and u64 have BitsUsize bits     *)
(* (a 64-bit target, where usize and u64 coincide and are wider than u32). *)
(* Arithmetic keeps its width: wrapping_add is taken modulo 2^w, and the   *)
(* unchecked `+ 1` of intern.rs panics or wraps depending on the build.    *)
(***************************************************************************)
EXTENDS Integers, Sequences, FiniteSets, TLC

\* ---- bounds -------------------------------------------------------------
Bits32 == 2
BitsUsize == Bits32 + 2
MaxArena == 5

U32Max == 2 ^ Bits32 - 1
U64Max == 2 ^ BitsUsize - 1
UsizeMax == 2 ^ BitsUsize - 1

\* The strings offered to the interner: byte sequences.
Strings == { <<>>, <<1>>, <<2>>, <<1, 2>>, <<2, 1>> }

\* ---- Option / panic values ---------------------------------------------
None == <<"None">>
Some(v) == <<"Some", v>>
Panic(msg) == <<"Panic", msg>>
IsSome(o) == o[1] = "Some"

\* ---- representations ----------------------------------------------------
NonZeroReprs == { "NonZeroUsize", "NonZeroU64", "NonZeroU32" }
PlainReprs == { "usize", "u64", "u32" }
GenericReprs == NonZeroReprs \cup PlainReprs
Reprs == GenericReprs \cup { "Fixed32" }
Builds == { "debug", "release" }

VARIABLES
    repr,       \* the Istr backing type of this Interner
    build,      \* whether integer overflow checks are compiled in
    arena,      \* InternerArena: the stored strings, slot i at position i+1
    table,      \* Lookup.table: the set of Metadata entries
    last,       \* the most recent call: operation, arguments and result
    firstId,    \* history: per string, the first identifier intern returned
    minted,     \* history: slot indices of the identifiers minted, in order
    exhausted,  \* history: try_intern has returned None at least once
    borrow,     \* RefCell<Lookup> borrow flag: 0 unused, -1 writing, n > 0 readers
    held        \* the borrow flag as it stood while the most recent call ran

vars == << repr, build, arena, table, last, firstId, minted, exhausted,
           borrow, held >>

\* ---- hashing ------------------------------------------------------------
RECURSIVE SumBytes(_)
SumBytes(s) == IF s = <<>> THEN 0 ELSE Head(s) + SumBytes(Tail(s))

\* lookup.random_state.hash_one(key): a fixed, deterministic hash of the
\* bytes of key; distinct strings may collide (<<1,2>> and <<2,1>> do).
hash_one(key) == SumBytes(key) % 4

\* ---- arena --------------------------------------------------------------
\* InternerArena::get(index)
arena_get(a, index) ==
    IF index \in 0 .. (Len(a) - 1) THEN Some(a[index + 1]) ELSE None

\* InternerArena::push_str(s): the slot index assigned, and the new arena
push_str_index(a) == Len(a)
push_str(a, s) == Append(a, s)

\* ---- istr.rs: the IstrRepr conversions ----------------------------------
\* u32::try_from(index).ok() and u64::try_from(index).ok()
u32_try_from(index) == IF index <= U32Max THEN Some(index) ELSE None
u64_try_from(index) == IF index <= U64Max THEN Some(index) ELSE None

\* NonZero*::new(n)
NonZero_new(n) == IF n = 0 THEN None ELSE Some(n)

\* mutant: NonZeroUsize::new(index), the + 1 is forgotten
NonZeroUsize_from_index_no_add(index) == NonZero_new(index % (UsizeMax + 1))

NonZeroUsize_from_index(index) == NonZero_new((index + 1) % (UsizeMax + 1))

\* mutant: the + 1 of the NonZero encoding is forgotten
NonZeroU64_from_index_no_add(index) ==
    LET n == u64_try_from(index)
    IN  IF n = None THEN None ELSE NonZero_new(n[2] % (U64Max + 1))

NonZeroU64_from_index(index) ==
    LET n == u64_try_from(index)
    IN  IF n = None THEN None ELSE NonZero_new((n[2] + 1) % (U64Max + 1))

\* mutant: the index is truncated to 32 bits instead of checked (index as u32)
NonZeroU32_from_index_truncating(index) ==
    NonZero_new((index + 1) % (U32Max + 1))

\* mutant: saturating_add in place of wrapping_add, without the range check
NonZeroU32_from_index_saturating(index) ==
    IF index >= U32Max THEN Some(U32Max) ELSE Some(index + 1)

NonZeroU32_from_index(index) ==
    LET n == u32_try_from(index)
    IN  IF n = None THEN None ELSE NonZero_new((n[2] + 1) % (U32Max + 1))

usize_from_index(index) == Some(index)
u64_from_index(index) == u64_try_from(index)
u32_from_index(index) == u32_try_from(index)

\* mutant: to_index returns the stored integer without the - 1
NonZero_to_index_raw(v) == v

\* to_index of the NonZero impls (self.get() - 1) and of the plain impls
NonZero_to_index(v) == v - 1
Plain_to_index(v) == v

\* I::from_index / I::to_index for the representation r the Interner was
\* instantiated with
from_index(r, index) ==
    CASE r = "NonZeroUsize" -> NonZeroUsize_from_index(index)
      [] r = "NonZeroU64"   -> NonZeroU64_from_index(index)
      [] r = "NonZeroU32"   -> NonZeroU32_from_index(index)
      [] r = "usize"        -> usize_from_index(index)
      [] r = "u64"          -> u64_from_index(index)
      [] r = "u32"          -> u32_from_index(index)

to_index(r, v) ==
    IF r \in NonZeroReprs THEN NonZero_to_index(v) ELSE Plain_to_index(v)

\* ---- intern.rs: Istr(NonZeroU32) ---------------------------------------
\* Istr::from_index: `u32::try_from(index).ok()? + 1` is an unchecked
\* addition: at n = u32::MAX it panics when overflow checks are compiled in
\* (debug) and wraps to 0 otherwise (release), which NonZeroU32::new rejects.
\* mutant: the index is truncated to 32 bits (index as u32) and wrapped
Istr_from_index_truncating(b, index) ==
    NonZero_new((index + 1) % (U32Max + 1))

Istr_from_index(b, index) ==
    LET n == u32_try_from(index)
    IN  IF n = None THEN None
        ELSE IF n[2] + 1 > U32Max
             THEN IF b = "debug"
                  THEN Panic("attempt to add with overflow")
                  ELSE NonZero_new((n[2] + 1) % (U32Max + 1))
             ELSE NonZero_new(n[2] + 1)

\* Istr::to_index
Istr_to_index(v) == v - 1

\* ---- the lookup table ---------------------------------------------------
\* Metadata { interned, hash }
Metadata(interned, hash) == [ interned |-> interned, hash |-> hash ]

\* mutant: the closure looks the stored integer up without to_index
eq_key_raw_id(r, a, m, key) == arena_get(a, m.interned) = Some(key)

\* mutant: the closure trusts the hash and accepts every probed entry
eq_key_hash_only(r, a, m, key) == TRUE

\* The equality closure handed to the table by try_intern and get_interned:
\* |metadata| self.arena.get(metadata.interned.repr.to_index()) == Some(key)
eq_key(r, a, m, key) == arena_get(a, to_index(r, m.interned)) = Some(key)

\* The same closure in intern.rs
Fixed_eq_key(a, m, key) == arena_get(a, Istr_to_index(m.interned)) = Some(key)

\* HashTable::find / HashTable::entry probe: the entries stored under hash
\* for which the equality closure holds (matches is that set of entries).
table_find(matches) ==
    IF matches = {} THEN None ELSE Some(CHOOSE m \in matches : TRUE)

\* ---- interner.rs: Interner<I> ------------------------------------------
\* mutant: the identifier for the next slot is minted before the table is
\* probed, so an exhausted interner returns None for interned strings too
try_intern_mint_first(r, a, t, key) ==
    LET hash == hash_one(key)
        interned == from_index(r, push_str_index(a))
        entry == table_find({ m \in t : m.hash = hash /\ eq_key(r, a, m, key) })
    IN  IF ~IsSome(interned)
        THEN [ res |-> interned, arena |-> a, table |-> t ]
        ELSE IF IsSome(entry)
        THEN [ res |-> Some(entry[2].interned), arena |-> a, table |-> t ]
        ELSE [ res |-> Some(interned[2]), arena |-> push_str(a, key),
               table |-> t \cup { Metadata(interned[2], hash) } ]

\* mutant: the entry stores the slot index where the identifier belongs
try_intern_index_entry(r, a, t, key) ==
    LET hash == hash_one(key)
        entry == table_find({ m \in t : m.hash = hash /\ eq_key(r, a, m, key) })
    IN  IF IsSome(entry)
        THEN [ res |-> Some(entry[2].interned), arena |-> a, table |-> t ]
        ELSE LET index == push_str_index(a)
                 a2 == push_str(a, key)
                 interned == from_index(r, index)
             IN  IF IsSome(interned)
                 THEN [ res |-> Some(interned[2]), arena |-> a2,
                        table |-> t \cup { Metadata(index, hash) } ]
                 ELSE [ res |-> interned, arena |-> a2, table |-> t ]

\* mutant: inserting replaces the entries already stored under the same hash
try_intern_replacing(r, a, t, key) ==
    LET hash == hash_one(key)
        entry == table_find({ m \in t : m.hash = hash /\ eq_key(r, a, m, key) })
    IN  IF IsSome(entry)
        THEN [ res |-> Some(entry[2].interned), arena |-> a, table |-> t ]
        ELSE LET index == push_str_index(a)
                 a2 == push_str(a, key)
                 interned == from_index(r, index)
             IN  IF IsSome(interned)
                 THEN [ res |-> Some(interned[2]), arena |-> a2,
                        table |-> { m \in t : m.hash # hash }
                                      \cup { Metadata(interned[2], hash) } ]
                 ELSE [ res |-> interned, arena |-> a2, table |-> t ]

\* try_intern: the result and the arena and table it leaves behind
try_intern(r, a, t, key) ==
    LET hash == hash_one(key)
        entry == table_find({ m \in t : m.hash = hash /\ eq_key(r, a, m, key) })
    IN  IF IsSome(entry)
        THEN [ res |-> Some(entry[2].interned), arena |-> a, table |-> t ]
        ELSE LET index == push_str_index(a)
                 a2 == push_str(a, key)
                 interned == from_index(r, index)
             IN  IF IsSome(interned)
                 THEN [ res |-> Some(interned[2]), arena |-> a2,
                        table |-> t \cup { Metadata(interned[2], hash) } ]
                 ELSE [ res |-> interned, arena |-> a2, table |-> t ]

\* mutant: get_interned returns whatever entry is stored under the hash
get_interned_hash_only(r, a, t, key) ==
    LET hash == hash_one(key)
        found == table_find({ m \in t : m.hash = hash })
    IN  IF IsSome(found) THEN Some(found[2].interned) ELSE None

\* get_interned
get_interned(r, a, t, key) ==
    LET hash == hash_one(key)
        found == table_find({ m \in t : m.hash = hash /\ eq_key(r, a, m, key) })
    IN  IF IsSome(found) THEN Some(found[2].interned) ELSE None

\* mutant: get_str looks the stored integer up without to_index
get_str_raw(r, a, interned) == arena_get(a, interned)

\* get_str
get_str(r, a, interned) == arena_get(a, to_index(r, interned))

\* ---- intern.rs: Interner -----------------------------------------------
Fixed_try_intern(b, a, t, key) ==
    LET hash == hash_one(key)
        entry == table_find({ m \in t : m.hash = hash /\ Fixed_eq_key(a, m, key) })
    IN  IF IsSome(entry)
        THEN [ res |-> Some(entry[2].interned), arena |-> a, table |-> t ]
        ELSE LET index == push_str_index(a)
                 a2 == push_str(a, key)
                 interned == Istr_from_index(b, index)
             IN  IF IsSome(interned)
                 THEN [ res |-> Some(interned[2]), arena |-> a2,
                        table |-> t \cup { Metadata(interned[2], hash) } ]
                 ELSE [ res |-> interned, arena |-> a2, table |-> t ]

Fixed_get_interned(a, t, key) ==
    LET hash == hash_one(key)
        found == table_find({ m \in t : m.hash = hash /\ Fixed_eq_key(a, m, key) })
    IN  IF IsSome(found) THEN Some(found[2].interned) ELSE None

Fixed_get_str(a, interned) == arena_get(a, Istr_to_index(interned))

\* ---- dispatch on the interner that was constructed ----------------------
do_try_intern(key) ==
    IF repr = "Fixed32" THEN Fixed_try_intern(build, arena, table, key)
    ELSE try_intern(repr, arena, table, key)

do_get_interned(key) ==
    IF repr = "Fixed32" THEN Fixed_get_interned(arena, table, key)
    ELSE get_interned(repr, arena, table, key)

do_get_str(interned) ==
    IF repr = "Fixed32" THEN Fixed_get_str(arena, interned)
    ELSE get_str(repr, arena, interned)

do_to_index(v) ==
    IF repr = "Fixed32" THEN Istr_to_index(v) ELSE to_index(repr, v)

\* intern / index: .expect(msg) on the Option the inner call returned
expect(o, msg) == IF o = None THEN Panic(msg) ELSE o

\* The identifier values a caller can hold: any value of the backing type
\* (a NonZero type has no zero), also ones this Interner never minted.
ReprMax(r) == IF r \in { "NonZeroU32", "u32", "Fixed32" } THEN U32Max ELSE UsizeMax
IdValues(r) ==
    { v \in 0 .. (MaxArena + 1) :
        /\ v <= ReprMax(r)
        /\ (r \in NonZeroReprs \cup { "Fixed32" } => v >= 1) }

\* ---- RefCell<Lookup> ------------------------------------------------------
\* self.lookup.borrow_mut(): the flag while the RefMut lives, or the panic
RefCell_borrow_mut(flag) ==
    IF flag = 0 THEN Some(-1) ELSE Panic("already borrowed")

\* self.lookup.borrow(): the flag while the Ref lives, or the panic
RefCell_borrow(flag) ==
    IF flag >= 0 THEN Some(flag + 1) ELSE Panic("already mutably borrowed")

\* mutant: the guard is leaked (never dropped) when the call leaves
drop_guard_leak(flag) == flag

\* The guard `lookup` goes out of scope: at the end of the body, at the early
\* return of `?`, and when a panic unwinds through the call.
drop_guard(flag) == IF flag < 0 THEN flag + 1 ELSE flag - 1

\* ---- state machine ------------------------------------------------------
Call(op, key, id, res) ==
    [ op |-> op, key |-> key, id |-> id, res |-> res,
      stored |-> Cardinality(table), slots |-> Len(arena) ]

\* Interner::default() / new() / with_istr_repr()
Init ==
    /\ repr \in Reprs
    \* only intern.rs has arithmetic whose outcome depends on the build
    /\ build \in IF repr = "Fixed32" THEN Builds ELSE { "release" }
    /\ arena = <<>>
    /\ table = {}
    /\ last = [ op |-> "new", key |-> <<>>, id |-> 0, res |-> None,
                stored |-> 0, slots |-> 0 ]
    /\ firstId = [ s \in Strings |-> None ]
    /\ minted = <<>>
    /\ exhausted = FALSE
    /\ borrow = 0
    /\ held = 0

\* The history kept after an interning call that returned out
Record(key, out) ==
    /\ firstId' = IF IsSome(out.res) /\ firstId[key] = None
                  THEN [ firstId EXCEPT ![key] = out.res ]
                  ELSE firstId
    /\ minted' = IF out.table # table
                 THEN Append(minted, do_to_index(out.res[2]))
                 ELSE minted

\* interner.try_intern(key)
TryIntern(key) ==
    LET lookup == RefCell_borrow_mut(borrow)
        out == do_try_intern(key)
    IN  IF IsSome(lookup)
        THEN /\ Len(out.arena) <= MaxArena
             /\ arena' = out.arena
             /\ table' = out.table
             /\ last' = Call("try_intern", key, 0, out.res)
             /\ Record(key, out)
             /\ exhausted' = (exhausted \/ out.res = None)
             /\ held' = lookup[2]
             /\ borrow' = drop_guard(lookup[2])
             /\ UNCHANGED << repr, build >>
        ELSE /\ last' = Call("try_intern", key, 0, lookup)
             /\ held' = borrow
             /\ UNCHANGED << repr, build, arena, table, firstId, minted,
                             exhausted, borrow >>

\* interner.intern(key)
Intern(key) ==
    LET lookup == RefCell_borrow_mut(borrow)
        out == do_try_intern(key)
    IN  IF IsSome(lookup)
        THEN /\ Len(out.arena) <= MaxArena
             /\ arena' = out.arena
             /\ table' = out.table
             /\ last' = Call("intern", key, 0,
                             expect(out.res, "too many interned strings"))
             /\ Record(key, out)
             /\ held' = lookup[2]
             /\ borrow' = drop_guard(lookup[2])
             /\ UNCHANGED << repr, build, exhausted >>
        ELSE /\ last' = Call("intern", key, 0, lookup)
             /\ held' = borrow
             /\ UNCHANGED << repr, build, arena, table, firstId, minted,
                             exhausted, borrow >>

\* mutant: get_interned interns the key when it misses
GetInterned_inserting(key) ==
    LET lookup == RefCell_borrow(borrow)
        out == do_try_intern(key)
    IN  /\ Len(out.arena) <= MaxArena
        /\ arena' = out.arena
        /\ table' = out.table
        /\ last' = Call("get_interned", key, 0, out.res)
        /\ Record(key, out)
        /\ held' = lookup[2]
        /\ borrow' = drop_guard(lookup[2])
        /\ UNCHANGED << repr, build, exhausted >>

\* interner.get_interned(key)
GetInterned(key) ==
    LET lookup == RefCell_borrow(borrow)
    IN  /\ last' = Call("get_interned", key, 0,
                        IF IsSome(lookup) THEN do_get_interned(key) ELSE lookup)
        /\ held' = IF IsSome(lookup) THEN lookup[2] ELSE borrow
        /\ borrow' = IF IsSome(lookup) THEN drop_guard(lookup[2]) ELSE borrow
        /\ UNCHANGED << repr, build, arena, table, firstId, minted, exhausted >>

\* interner.get_str(id)
GetStr(id) ==
    /\ last' = Call("get_str", <<>>, id, do_get_str(id))
    /\ held' = borrow
    /\ UNCHANGED << repr, build, arena, table, firstId, minted, exhausted,
                    borrow >>

\* interner[id]
Index(id) ==
    /\ last' = Call("index", <<>>, id, expect(do_get_str(id), "string not in interner"))
    /\ held' = borrow
    /\ UNCHANGED << repr, build, arena, table, firstId, minted, exhausted,
                    borrow >>

Next ==
    \/ \E key \in Strings : TryIntern(key)
    \/ \E key \in Strings : Intern(key)
    \/ \E key \in Strings : GetInterned(key)
    \/ \E id \in IdValues(repr) : GetStr(id)
    \/ \E id \in IdValues(repr) : Index(id)

Spec == Init /\ [][Next]_vars

\* ---- the conversions on their own ----------------------------------------
\* A second specification applies from_index to every usize index, and
\* to_index to what it returned, for each of the six IstrRepr impls.
InitConv ==
    /\ repr \in GenericReprs
    /\ build = "release"
    /\ arena = <<>>
    /\ table = {}
    /\ last = [ op |-> "new", key |-> <<>>, id |-> 0, res |-> None,
                stored |-> 0, slots |-> 0 ]
    /\ firstId = [ s \in Strings |-> None ]
    /\ minted = <<>>
    /\ exhausted = FALSE
    /\ borrow = 0
    /\ held = 0

\* I::from_index(index); last.id is the index, last.res the result
FromIndex(index) ==
    /\ last' = Call("from_index", <<>>, index, from_index(repr, index))
    /\ UNCHANGED << repr, build, arena, table, firstId, minted, exhausted,
                    borrow, held >>

\* r.to_index() for the r the last from_index returned; last.id stays the
\* index r was made from, last.res is the index to_index gives back
ToIndex ==
    /\ last.op = "from_index" /\ IsSome(last.res)
    /\ last' = Call("to_index", <<>>, last.id, Some(to_index(repr, last.res[2])))
    /\ UNCHANGED << repr, build, arena, table, firstId, minted, exhausted,
                    borrow, held >>

NextConv ==
    \/ \E index \in 0 .. UsizeMax : FromIndex(index)
    \/ ToIndex

SpecConv == InitConv /\ [][NextConv]_vars

\* ---- properties ----------------------------------------------------------
\* The call just made took the vacant branch of try_intern: it pushed key.
Pushed == last.op \in { "intern", "try_intern" } /\ last.slots < Len(arena)

\* The slot index fits the identifier width of representation r.
Representable(r, index) ==
    IF r \in PlainReprs THEN index <= ReprMax(r) ELSE index + 1 <= ReprMax(r)

\* C1 (determinism): whenever intern or try_intern returns an identifier for
\* a string, it is the identifier the first such call for that string
\* returned, whatever calls were made in between.
C1_Determinism ==
    (last.op \in { "intern", "try_intern" } /\ IsSome(last.res))
        => firstId[last.key] = last.res

\* a repeated intern of an earlier string, made after other strings were added
C1_Witness ==
    /\ last.op = "intern" /\ IsSome(last.res)
    /\ last.slots = Len(arena) /\ Len(arena) >= 3
    /\ last.res = Some(do_get_interned(arena[1])[2])

\* C2 (distinctness): two different strings that were both successfully
\* interned have different identifiers, also when their hashes collide.
C2_Distinctness ==
    \A s1, s2 \in Strings :
        (s1 # s2 /\ firstId[s1] # None /\ firstId[s2] # None)
            => firstId[s1] # firstId[s2]

\* two strings with the same hash are both interned
C2_Witness ==
    /\ hash_one(<<1, 2>>) = hash_one(<<2, 1>>)
    /\ firstId[<<1, 2>>] # None /\ firstId[<<2, 1>>] # None

\* C3 (round trip): the identifier intern returned for s resolves through
\* get_str to s, at once and in every later state.
C3_RoundTrip ==
    \A s \in Strings :
        firstId[s] # None => do_get_str(firstId[s][2]) = Some(s)

\* get_str of an earlier identifier, called after later insertions
C3_Witness ==
    /\ last.op = "get_str" /\ Len(arena) >= 3
    /\ firstId[arena[1]] = Some(last.id) /\ last.res = Some(arena[1])

\* C4: get_interned(s) is None for a string never successfully interned and
\* Some(id), with id the identifier intern returned, for every other string.
C4_GetInterned ==
    /\ \A s \in Strings : do_get_interned(s) = firstId[s]
    /\ last.op = "get_interned" => last.res = firstId[last.key]

\* get_interned misses a string whose hash collides with an interned one
C4_Witness ==
    /\ last.op = "get_interned" /\ last.res = None
    /\ \E s \in Strings : s # last.key /\ firstId[s] # None
                          /\ hash_one(s) = hash_one(last.key)

\* C5: the arena holds at most one stored copy of each distinct string.
C5_StoredOnce ==
    \A i, j \in 1 .. Len(arena) : arena[i] = arena[j] => i = j

\* C6 (monotonic slot growth): the k-th successful insertion (k = 0, 1, ...)
\* receives the identifier whose slot index is k.
C6_MonotonicSlots ==
    \A k \in 1 .. Len(minted) : minted[k] = k - 1

\* a successful insertion that follows two others
C6_Witness ==
    /\ Pushed /\ IsSome(last.res) /\ Len(minted) >= 3
    /\ do_to_index(last.res[2]) = Len(minted) - 1

\* C7 (exhaustion is recoverable), for the width-generic Interner: try_intern
\* of a new string whose slot index does not fit the identifier width returns
\* None, and once that has happened every identifier returned earlier still
\* resolves to its string and get_interned still returns it.
C7_Exhaustion ==
    /\ (repr \in GenericReprs /\ last.op = "try_intern" /\ Pushed
            /\ ~Representable(repr, last.slots))
        => last.res = None
    /\ exhausted =>
        \A s \in Strings :
            firstId[s] # None =>
                /\ do_get_str(firstId[s][2]) = Some(s)
                /\ do_get_interned(s) = firstId[s]

\* try_intern has just returned None with earlier strings interned
C7_Witness ==
    /\ repr \in GenericReprs /\ last.op = "try_intern" /\ last.res = None
    /\ exhausted /\ Cardinality(table) >= 3

\* C8: try_intern never panics, whatever slot index the arena returns.
C8_TryInternNeverPanics ==
    last.op = "try_intern" => last.res[1] # "Panic"

\* C9: the fixed 32-bit interner stores U32Max - 1 strings: intern of a new
\* string succeeds while fewer are stored and panics with "too many interned
\* strings" from then on.
C9_Capacity ==
    (repr = "Fixed32" /\ last.op = "intern" /\ Pushed) =>
        IF last.stored < U32Max - 1
        THEN IsSome(last.res)
        ELSE last.res = Panic("too many interned strings")

\* C10 as stated: for every representation an identifier stores a strictly
\* positive integer equal to the slot index of its string plus one.
C10_PositiveEverywhere ==
    \A s \in Strings :
        firstId[s] # None =>
            /\ firstId[s][2] >= 1
            /\ firstId[s][2] <= Len(arena)
            /\ arena[firstId[s][2]] = s

\* C10 amended: the NonZero representations (and the fixed Istr) store slot
\* index + 1, which is strictly positive; the plain representations usize,
\* u64 and u32 store the slot index itself.
C10_ReprInvariant ==
    \A s \in Strings :
        firstId[s] # None =>
            LET v == firstId[s][2]
                slot == IF repr \in PlainReprs THEN v ELSE v - 1
            IN  /\ repr \notin PlainReprs => v >= 1
                /\ slot \in 0 .. (Len(arena) - 1)
                /\ arena[slot + 1] = s

\* the second identifier has just been minted
C10_Witness ==
    /\ Len(minted) >= 2
    /\ \/ repr \in NonZeroReprs /\ firstId[arena[2]] = Some(2)
       \/ repr \in PlainReprs /\ firstId[arena[2]] = Some(1)
    /\ Pushed /\ last.res = firstId[arena[2]]

\* C11: from_index and to_index are inverse on the representable range:
\* to_index gives back the index from_index was given, and from_index returns
\* None for every index too large for the width.
C11_Inverse ==
    /\ last.op = "to_index" => last.res = Some(last.id)
    /\ (last.op = "from_index" /\ ~Representable(repr, last.id))
        => last.res = None

\* to_index has been applied to the largest value of a 32-bit NonZero repr
C11_Witness ==
    /\ repr = "NonZeroU32" /\ last.op = "to_index"
    /\ last.id = U32Max - 1 /\ last.res = Some(U32Max - 1)

\* The slot index an identifier value v of the Interner's type stands for.
SlotOf(v) == IF repr \in PlainReprs THEN v ELSE v - 1

\* get_str of identifier v evaluated against arena a
StrAt(a, v) ==
    IF repr = "Fixed32" THEN Fixed_get_str(a, v) ELSE get_str(repr, a, v)

\* C12 (dereference miss): get_str(id) is None exactly when the slot index of
\* id is out of range of the arena and otherwise the string stored at that
\* slot; indexing by id gives the same string and panics with "string not in
\* interner" exactly when get_str gives None.
C12_DerefMiss ==
    /\ last.op = "get_str" =>
        IF SlotOf(last.id) \in 0 .. (Len(arena) - 1)
        THEN last.res = Some(arena[SlotOf(last.id) + 1])
        ELSE last.res = None
    /\ last.op = "index" =>
        IF SlotOf(last.id) \in 0 .. (Len(arena) - 1)
        THEN last.res = Some(arena[SlotOf(last.id) + 1])
        ELSE last.res = Panic("string not in interner")
    /\ last.op = "index" =>
        (last.res[1] = "Panic" <=> do_get_str(last.id) = None)

\* indexing by an identifier this non-empty Interner never minted has panicked
C12_Witness ==
    /\ last.op = "index" /\ last.res = Panic("string not in interner")
    /\ Len(arena) >= 2 /\ SlotOf(last.id) >= Len(arena)

\* C13 (lookup-entry invariant): every entry's identifier dereferences to a
\* string whose hash is the entry's cached hash, and no two entries
\* dereference to equal strings.
C13_LookupEntries ==
    /\ \A m \in table :
        /\ IsSome(do_get_str(m.interned))
        /\ hash_one(do_get_str(m.interned)[2]) = m.hash
    /\ \A m1, m2 \in table :
        m1 # m2 => do_get_str(m1.interned) # do_get_str(m2.interned)

\* the table holds the entries of two strings with the same hash
C13_Witness ==
    \E m1, m2 \in table :
        /\ m1 # m2 /\ m1.hash = m2.hash
        /\ do_get_str(m1.interned) = Some(<<1, 2>>)
        /\ do_get_str(m2.interned) = Some(<<2, 1>>)

\* C14 (stability): a step never changes a string get_str already returns,
\* and never updates or removes a lookup entry.
C14_Stability ==
    [][ /\ \A v \in IdValues(repr) :
            IsSome(StrAt(arena, v)) => StrAt(arena', v) = StrAt(arena, v)
        /\ table \subseteq table' ]_vars

\* entries exist, and calls have hit, inserted and failed on exhaustion
C14_Witness ==
    /\ exhausted /\ Cardinality(table) >= 3
    /\ Len(arena) > Cardinality(table)
    /\ last.op = "get_str" /\ last.res = Some(arena[1])

\* C15 (purity): a get_interned or get_str call changes neither the arena
\* nor the lookup table.
C15_Pure ==
    [][ last'.op \in { "get_interned", "get_str" }
            => (arena' = arena /\ table' = table) ]_vars

\* get_interned has missed on a string that is not interned, in an Interner
\* that holds other strings
C15_Witness ==
    /\ last.op = "get_interned" /\ last.res = None
    /\ firstId[last.key] = None
    /\ Len(arena) >= 2 /\ Cardinality(table) >= 2

\* The panics of a RefCell access conflict
BorrowPanics == { Panic("already borrowed"), Panic("already mutably borrowed") }

\* C16 as stated: every intern, try_intern and get_interned call holds
\* exclusive access to the lookup while it runs and has released it when it
\* returns, and no call ends in an access conflict.
C16_ExclusiveAccess ==
    /\ last.op \in { "intern", "try_intern", "get_interned" } => held = -1
    /\ borrow = 0
    /\ last.res \notin BorrowPanics

\* C16 amended: intern and try_intern hold exclusive access (borrow_mut) and
\* get_interned holds shared access (borrow) while they run; each has released
\* it when it returns, on every exit path, and no call ends in an access
\* conflict.
C16_AccessDiscipline ==
    /\ last.op \in { "intern", "try_intern" } => held = -1
    /\ last.op = "get_interned" => held = 1
    /\ borrow = 0
    /\ last.res \notin BorrowPanics

\* intern has left through its panic, after calls that failed on exhaustion
C16_Witness ==
    /\ last.op = "intern" /\ last.res = Panic("too many interned strings")
    /\ exhausted /\ held = -1 /\ borrow = 0

\* C17: the arena has as many slots as the table has entries, and every
\* slot index is referenced by exactly one entry.
C17_OneToOne ==
    /\ Len(arena) = Cardinality(table)
    /\ \A i \in 0 .. (Len(arena) - 1) :
        Cardinality({ m \in table : do_to_index(m.interned) = i }) = 1

\* C18: when the next slot index does not fit the identifier width, intern
\* and try_intern of an already interned string return its identifier and
\* change nothing.
C18_HitWhenExhausted ==
    /\ ~Representable(repr, Len(arena)) =>
        \A s \in Strings :
            firstId[s] # None =>
                LET out == do_try_intern(s)
                IN  /\ out.res = firstId[s]
                    /\ expect(out.res, "too many interned strings") = firstId[s]
                    /\ out.arena = arena /\ out.table = table
    /\ (last.op \in { "intern", "try_intern" } /\ ~Pushed
            /\ ~Representable(repr, last.slots))
        => (IsSome(last.res) /\ last.res = firstId[last.key])

\* intern of an interned string has hit after try_intern returned None
C18_Witness ==
    /\ exhausted /\ ~Representable(repr, Len(arena))
    /\ last.op = "intern" /\ ~Pushed
    /\ IsSome(last.res) /\ last.res = firstId[last.key]

\* C19 (exhaustion is permanent): once try_intern has returned None, a step
\* adds no lookup entry and mints nothing, and a call that pushes a string
\* that is not interned returns None (try_intern) or panics (intern).
C19_Permanent ==
    [][ exhausted =>
            /\ table' = table /\ minted' = minted /\ firstId' = firstId
            /\ (last'.op = "try_intern" /\ last'.slots < Len(arena'))
                => last'.res = None
            /\ (last'.op = "intern" /\ last'.slots < Len(arena'))
                => last'.res = Panic("too many interned strings") ]_vars

\* a second new string has been refused after the first None
C19_Witness ==
    /\ exhausted /\ Pushed /\ ~IsSome(last.res)
    /\ Len(arena) >= Cardinality(table) + 2
    /\ arena[Len(arena)] # arena[Len(arena) - 1]

====
